---- MODULE Spec2Model ----
(***************************************************************************)
(* minivault: a text-generation gateway.  The module models the HTTP       *)
(* handlers (HandleGenerate, HandleGenerateStream), the generator service  *)
(* with its stub fallback, the Stub and Ollama backends, the ChunkedWriter *)
(* streaming adapter and the LoggingService that appends one JSON line per *)
(* request to the log file.                                                *)
(*                                                                         *)
(* Text.  A Go string is modelled as a sequence of pieces.  A piece is a   *)
(* TLA+ string: either one character the code may look at (" ", "\n",      *)
(* "\t", "\"", "\\", letters) or a literal of the program that the code    *)
(* never looks inside (a word of the stub template, an error message).     *)
(* An error value is a record [nil, msg]; msg is the text of Error().      *)
(***************************************************************************)
EXTENDS Integers, Sequences, FiniteSets, TLC

VARIABLES
    env,            \* process environment: LLM_TYPE, OLLAMA_HOST, OLLAMA_MODEL
    booted,         \* main has constructed logger, generator and handler
    stderr,         \* operational output of the process (package log / fmt)
    llmService,     \* GeneratorService.llmService: the backend in use
    logFile,        \* LoggingService.logFile: "nil" or "set"
    llmType,        \* LoggingService.llmType
    fdOpen,         \* the OS handle behind logFile is open
    fdLock,         \* holder of the handle's write lock (0: free)
    store,          \* content of the log file, a sequence of pieces
    now,            \* the clock read by time.Now()
    closeRets,      \* return values of the Close calls on the service so far
    osCloseCalls,   \* number of os.File.Close calls on the handle
    calls,          \* frames of the direct logger calls (one per caller)
    req,            \* frames of the HTTP requests (one per request goroutine)
    cw,             \* a ChunkedWriter driven directly (sink, observed text)
    bk              \* a backend driven directly against a model server and a sink

vars == <<env, booted, stderr, llmService, logFile, llmType, fdOpen, fdLock,
          store, now, closeRets, osCloseCalls, calls, req, cw, bk>>

--------------------------------------------------------------------------
(* Bounds of the model *)

NumCallers == 2       \* concurrent direct callers of the logger
MaxClock == 1         \* the clock takes the values 0..MaxClock
MaxCloses == 3        \* Close calls on one LoggingService
MaxObjs == 2          \* objects the model server sends in one stream
MaxFrags == 3         \* fragments written through one ChunkedWriter
MaxLines == 2         \* lines appended by the direct sequential calls
MaxText == 3          \* characters of a text handed to countTokens

Callers == 1..NumCallers
Reqs == {"r1", "r2"}
Solo == {"r1"}

--------------------------------------------------------------------------
(* Errors and text *)

Nil == [nil |-> TRUE, msg |-> <<>>]
Err(m) == [nil |-> FALSE, msg |-> m]
\* fmt.Errorf("<prefix>%v", e)
Errorf(prefix, e) == Err(<<prefix>> \o e.msg)

Lit(s) == IF s = "" THEN <<>> ELSE <<s>>

IsSpace(p) == p \in {" ", "\n", "\t"}

RECURSIVE ByteLen(_)
ByteLen(t) == IF t = <<>> THEN 0 ELSE Len(Head(t)) + ByteLen(Tail(t))

RECURSIVE Concat(_)
Concat(ts) == IF ts = <<>> THEN <<>> ELSE Head(ts) \o Concat(Tail(ts))

Digits == <<"0", "1", "2", "3", "4", "5", "6", "7", "8", "9">>

\* fmt's %d / strconv for a non-negative integer
RECURSIVE Itoa(_)
Itoa(n) == IF n < 10 THEN <<Digits[n + 1]>>
           ELSE Itoa(n \div 10) \o <<Digits[(n % 10) + 1]>>

\* (Raw: a string quoted as it is)
EscapePieceRaw(p) == <<p>>

\* encoding/json: a string is quoted and its special characters escaped
EscapePiece(p) ==
    CASE p = "\"" -> <<"\\", "\"">>
      [] p = "\\" -> <<"\\", "\\">>
      [] p = "\n" -> <<"\\", "n">>
      [] p = "\t" -> <<"\\", "t">>
      [] OTHER    -> <<p>>

RECURSIVE Escape(_)
Escape(t) == IF t = <<>> THEN <<>> ELSE EscapePiece(Head(t)) \o Escape(Tail(t))

JSONString(t) == <<"\"">> \o Escape(t) \o <<"\"">>

JSONBool(b) == IF b THEN <<"true">> ELSE <<"false">>

UnescapePiece(p) ==
    CASE p = "n" -> "\n"
      [] p = "t" -> "\t"
      [] OTHER   -> p

\* encoding/json decoding of the inside of a quoted string
RECURSIVE Unescape(_)
Unescape(t) ==
    IF t = <<>> THEN <<>>
    ELSE IF Head(t) = "\\" /\ Len(t) >= 2
         THEN <<UnescapePiece(t[2])>> \o Unescape(Tail(Tail(t)))
         ELSE <<Head(t)>> \o Unescape(Tail(t))

--------------------------------------------------------------------------
(* Interaction logger: src/src/service/logger.go *)

Pid == 7

generateRequestID == Itoa(now) \o <<"-">> \o Itoa(Pid)

\* getSystemStats: a snapshot of the runtime (the values are the environment's)
getSystemStats == [goroutines |-> 10, memUsed |-> 4096]

\* countTokens: the loop over the text with the inWord flag
RECURSIVE countLoop(_, _, _)
countLoop(text, words, inWord) ==
    IF text = <<>> THEN words
    ELSE IF IsSpace(Head(text)) THEN countLoop(Tail(text), words, FALSE)
    ELSE IF ~inWord THEN countLoop(Tail(text), words + 1, TRUE)
    ELSE countLoop(Tail(text), words, inWord)

countTokens(text) == IF text = <<>> THEN 0 ELSE countLoop(text, 0, FALSE)

\* the LogEntry built by LogInteraction
InteractionEntry(prompt, response, streaming) ==
    LET startTime == now
        stats == getSystemStats
    IN [ID |-> generateRequestID,
        Timestamp |-> startTime,
        Duration |-> now - startTime,
        Prompt |-> prompt,
        LLMType |-> Lit(llmType),
        LLMModel |-> <<>>,
        Streaming |-> streaming,
        Response |-> response,
        TokenCount |-> countTokens(response),
        ResponseSize |-> ByteLen(response),
        Success |-> TRUE,
        ErrorMessage |-> <<>>,
        GoVersion |-> <<"go1.22">>,
        GoRoutines |-> stats.goroutines,
        MemoryUsed |-> stats.memUsed]

\* (NoMessage: the entry of a failure without the error's text)
ErrorEntryNoMessage(prompt, err, streaming) ==
    [InteractionEntry(prompt, <<>>, streaming) EXCEPT !.Success = FALSE]

\* the LogEntry built by LogError
ErrorEntry(prompt, err, streaming) ==
    LET startTime == now
        stats == getSystemStats
    IN [ID |-> generateRequestID,
        Timestamp |-> startTime,
        Duration |-> now - startTime,
        Prompt |-> prompt,
        LLMType |-> Lit(llmType),
        LLMModel |-> <<>>,
        Streaming |-> streaming,
        Response |-> <<>>,
        TokenCount |-> 0,
        ResponseSize |-> 0,
        Success |-> FALSE,
        ErrorMessage |-> err.msg,
        GoVersion |-> <<"go1.22">>,
        GoRoutines |-> stats.goroutines,
        MemoryUsed |-> stats.memUsed]

\* json.Marshal(entry): the fields in declaration order, "error" omitted
\* when empty
Marshal(e) ==
    <<"{", "\"id\":">> \o JSONString(e.ID)
    \o <<",", "\"timestamp\":">> \o JSONString(Itoa(e.Timestamp))
    \o <<",", "\"duration_ms\":">> \o Itoa(e.Duration)
    \o <<",", "\"prompt\":">> \o JSONString(e.Prompt)
    \o <<",", "\"llm_type\":">> \o JSONString(e.LLMType)
    \o <<",", "\"llm_model\":">> \o JSONString(e.LLMModel)
    \o <<",", "\"streaming\":">> \o JSONBool(e.Streaming)
    \o <<",", "\"response\":">> \o JSONString(e.Response)
    \o <<",", "\"token_count\":">> \o Itoa(e.TokenCount)
    \o <<",", "\"response_size\":">> \o Itoa(e.ResponseSize)
    \o <<",", "\"success\":">> \o JSONBool(e.Success)
    \o (IF e.ErrorMessage = <<>> THEN <<>>
        ELSE <<",", "\"error\":">> \o JSONString(e.ErrorMessage))
    \o <<",", "\"go_version\":">> \o JSONString(e.GoVersion)
    \o <<",", "\"goroutines\":">> \o Itoa(e.GoRoutines)
    \o <<",", "\"memory_bytes\":">> \o Itoa(e.MemoryUsed)
    \o <<"}">>

\* fmt.Fprintln(s.logFile, string(jsonData)) hands one buffer to File.Write
Fprintln(jsonData) == jsonData \o <<"\n">>


IdleCall == [pc |-> "idle", op |-> "", prompt |-> <<>>, response |-> <<>>,
             err |-> Nil, streaming |-> FALSE, line |-> <<>>, off |-> 0,
             ret |-> Nil]

\* arguments of the concurrent logger calls: each caller logs its own prompt
CallPrompts(c) == {<<"p", "\n">> \o Itoa(c)}
CallResponses == {<<"a", " ", "b">>}
CallErrs == {Err(<<"boom">>)}

\* LogInteraction up to json.Marshal: the entry is built and serialized
LogInteractionBegin(c) ==
    /\ calls[c].pc = "idle"
    /\ \E prompt \in CallPrompts(c), response \in CallResponses :
         calls' = [calls EXCEPT ![c] =
            [pc |-> "built", op |-> "LogInteraction", prompt |-> prompt,
             response |-> response, err |-> Nil, streaming |-> FALSE,
             line |-> Fprintln(Marshal(InteractionEntry(prompt, response, FALSE))),
             off |-> 0, ret |-> Nil]]
    /\ UNCHANGED <<env, booted, stderr, llmService, logFile, llmType, fdOpen,
                   fdLock, store, now, closeRets, osCloseCalls, req, cw,
                   bk>>

\* LogError up to json.Marshal
LogErrorBegin(c) ==
    /\ calls[c].pc = "idle"
    /\ \E prompt \in CallPrompts(c), err \in CallErrs :
         calls' = [calls EXCEPT ![c] =
            [pc |-> "built", op |-> "LogError", prompt |-> prompt,
             response |-> <<>>, err |-> err, streaming |-> TRUE,
             line |-> Fprintln(Marshal(ErrorEntry(prompt, err, TRUE))),
             off |-> 0, ret |-> Nil]]
    /\ UNCHANGED <<env, booted, stderr, llmService, logFile, llmType, fdOpen,
                   fdLock, store, now, closeRets, osCloseCalls, req, cw,
                   bk>>

\* the error LogInteraction / LogError return when Fprintln fails
WrapWriteErr(op, e) ==
    IF op = "LogInteraction" THEN Errorf("failed to write to log file: ", e)
    ELSE Errorf("failed to write error log entry: ", e)

\* (NilUsable: a write through a nil handle going to the file)
HandleErrNilUsable ==
    IF logFile # "nil" /\ ~fdOpen THEN Err(<<"file already closed">>)
    ELSE Nil

\* the error of File.Write on a nil or closed handle (Nil: the handle is usable)
HandleErr ==
    IF logFile = "nil" THEN Err(<<"invalid argument">>)
    ELSE IF ~fdOpen THEN Err(<<"file already closed">>)
    ELSE Nil

\* File.Write takes the handle's write lock for the whole buffer
\* (NoMutex: a writer that does not wait for the lock)
WriteLockFreeNoMutex(c) == TRUE
WriteLockFree(c) == fdLock = 0

\* Fprintln reaches File.Write: an unusable handle fails at once, otherwise
\* the caller takes the write lock
FileWriteLock(c) ==
    /\ calls[c].pc = "built"
    /\ IF ~HandleErr.nil
       THEN /\ calls' = [calls EXCEPT ![c].pc = "done",
                                      ![c].ret = WrapWriteErr(calls[c].op, HandleErr)]
            /\ UNCHANGED fdLock
       ELSE /\ WriteLockFree(c)
            /\ fdLock' = c
            /\ calls' = [calls EXCEPT ![c].pc = "writing"]
    /\ UNCHANGED <<env, booted, stderr, llmService, logFile, llmType, fdOpen,
                   store, now, closeRets, osCloseCalls, req, cw,
                   bk>>

\* one write(2) under the lock: it appends what is left of the buffer
\* (O_APPEND) or, a partial write, the first half of it, or fails; File.Write loops until the buffer is
\* written, then unlocks and returns
FileWriteSyscall(c) ==
    /\ calls[c].pc = "writing"
    /\ LET rest == SubSeq(calls[c].line, calls[c].off + 1, Len(calls[c].line))
       IN \/ \E n \in {Len(rest), (Len(rest) + 1) \div 2} :
               /\ store' = store \o SubSeq(rest, 1, n)
               /\ IF n = Len(rest)
                  THEN /\ calls' = [calls EXCEPT ![c].pc = "done",
                                                 ![c].off = Len(calls[c].line),
                                                 ![c].ret = Nil]
                       /\ fdLock' = IF fdLock = c THEN 0 ELSE fdLock
                  ELSE /\ calls' = [calls EXCEPT ![c].off = calls[c].off + n]
                       /\ UNCHANGED fdLock
          \/ /\ calls' = [calls EXCEPT ![c].pc = "done",
                            ![c].ret = WrapWriteErr(calls[c].op,
                                                    Err(<<"no space left on device">>))]
             /\ fdLock' = IF fdLock = c THEN 0 ELSE fdLock
             /\ UNCHANGED store
    /\ UNCHANGED <<env, booted, stderr, llmService, logFile, llmType, fdOpen,
                   now, closeRets, osCloseCalls, req, cw,
                   bk>>

\* Close: "if err == nil { s.logFile = nil }"
\* (KeepHandle: a Close that forgets to drop the handle)
LogFileAfterCloseKeepHandle(err) == "set"
LogFileAfterClose(err) == IF err.nil THEN "nil" ELSE "set"

\* LoggingService.Close; os.File.Close may fail, and fails on a closed handle
Close ==
    /\ Len(closeRets) < MaxCloses
    /\ fdLock = 0
    /\ IF logFile = "nil"
       THEN /\ closeRets' = Append(closeRets, Nil)
            /\ UNCHANGED <<logFile, fdOpen, osCloseCalls>>
       ELSE \E err \in (IF fdOpen THEN {Nil, Err(<<"input/output error">>)}
                        ELSE {Err(<<"file already closed">>)}) :
               /\ osCloseCalls' = osCloseCalls + 1
               /\ fdOpen' = FALSE
               /\ logFile' = LogFileAfterClose(err)
               /\ closeRets' = Append(closeRets, err)
    /\ UNCHANGED <<env, booted, stderr, llmService, llmType, fdLock, store,
                   now, calls, req, cw,
                   bk>>

\* the whole of LogInteraction / LogError from a handler: the line is built
\* and handed to File.Write, which appends it under the write lock or fails
\* (ioOk: the outcome of the write on a usable handle)
LogWrite(op, line, ioOk) ==
    LET e == IF ~HandleErr.nil THEN HandleErr
             ELSE IF ~ioOk THEN Err(<<"no space left on device">>)
             ELSE Nil
    IN [ret |-> IF e.nil THEN Nil ELSE WrapWriteErr(op, e),
        store |-> IF e.nil THEN store \o line ELSE store]

LogInteraction(prompt, response, streaming, ioOk) ==
    LogWrite("LogInteraction",
             Fprintln(Marshal(InteractionEntry(prompt, response, streaming))), ioOk)

LogError(prompt, err, streaming, ioOk) ==
    LogWrite("LogError",
             Fprintln(Marshal(ErrorEntry(prompt, err, streaming))), ioOk)

\* the lines of a file content: the pieces before each "\n"
Newlines(t) == {i \in DOMAIN t : t[i] = "\n"}

LineEnd(t, k) ==
    CHOOSE i \in Newlines(t) : Cardinality({j \in Newlines(t) : j <= i}) = k

Lines(t) ==
    [k \in 1..Cardinality(Newlines(t)) |->
        SubSeq(t, IF k = 1 THEN 1 ELSE LineEnd(t, k - 1) + 1, LineEnd(t, k) - 1)]

\* what follows the last "\n" of a file content
Trailing(t) ==
    LET n == Cardinality(Newlines(t))
    IN SubSeq(t, IF n = 0 THEN 1 ELSE LineEnd(t, n) + 1, Len(t))

\* encoding/json decoding of the string that opens at position s of a line:
\* it ends at the first quote that is not escaped
Backslashes(t, s, j) ==
    CHOOSE n \in 0..(j - s - 1) :
        /\ \A m \in 1..n : t[j - m] = "\\"
        /\ (n < j - s - 1 => t[j - n - 1] # "\\")

ClosesString(t, s, j) == t[j] = "\"" /\ Backslashes(t, s, j) % 2 = 0

StringEnd(t, s) ==
    IF \E j \in (s + 1)..Len(t) : ClosesString(t, s, j)
    THEN CHOOSE j \in (s + 1)..Len(t) :
            /\ ClosesString(t, s, j)
            /\ \A k \in (s + 1)..(j - 1) : ~ClosesString(t, s, k)
    ELSE 0

\* [ok, text]: the string value of a key of a JSON line
GetString(t, key) ==
    IF \E i \in DOMAIN t : t[i] = key
    THEN LET i == CHOOSE i \in DOMAIN t : t[i] = key
             s == i + 1
         IN IF s <= Len(t) /\ t[s] = "\"" /\ StringEnd(t, s) # 0
            THEN [ok |-> TRUE, text |-> Unescape(SubSeq(t, s + 1, StringEnd(t, s) - 1))]
            ELSE [ok |-> FALSE, text |-> <<>>]
    ELSE [ok |-> FALSE, text |-> <<>>]

\* the value of a key of a JSON line that is a number or a boolean
GetRaw(t, key) ==
    IF \E i \in DOMAIN t : t[i] = key
    THEN LET i == CHOOSE i \in DOMAIN t : t[i] = key
             e == CHOOSE j \in (i + 1)..Len(t) :
                     /\ t[j] \in {",", "}"}
                     /\ \A k \in (i + 1)..(j - 1) : t[k] \notin {",", "}"}
         IN [ok |-> TRUE, text |-> SubSeq(t, i + 1, e - 1)]
    ELSE [ok |-> FALSE, text |-> <<>>]

\* a decimal number read back
RECURSIVE Atoi(_)
Atoi(t) ==
    IF t = <<>> THEN 0
    ELSE 10 * Atoi(SubSeq(t, 1, Len(t) - 1))
         + (CHOOSE n \in 0..9 : Digits[n + 1] = t[Len(t)])

\* json.Unmarshal(line, &entry): the fields of the LogEntry the tests read;
\* a key that is absent leaves the zero value
Unmarshal(line) ==
    LET str(key) == GetString(line, key).text
        num(key) == Atoi(GetRaw(line, key).text)
        bool(key) == GetRaw(line, key).text = <<"true">>
    IN [Prompt |-> str("\"prompt\":"),
        LLMType |-> str("\"llm_type\":"),
        Streaming |-> bool("\"streaming\":"),
        Response |-> str("\"response\":"),
        TokenCount |-> num("\"token_count\":"),
        ResponseSize |-> num("\"response_size\":"),
        Success |-> bool("\"success\":"),
        ErrorMessage |-> str("\"error\":")]

\* arguments of the sequential logger calls
\* (err: the error handed to LogError, errors.New("") among them)
DirectArgs == {[prompt |-> <<"p">>, streaming |-> FALSE, err |-> Err(<<>>)],
               [prompt |-> <<"\"", "\n">>, streaming |-> TRUE,
                err |-> Err(<<"bad", " ", "\"", "q">>)]}
DirectResponses == {<<>>, <<"a", " ", "b">>}

\* one whole LogInteraction call, run alone on the service
DirectLogInteraction ==
    /\ Cardinality(Newlines(store)) < MaxLines
    /\ \E a \in DirectArgs, response \in DirectResponses, ioOk \in BOOLEAN :
         LET l == LogInteraction(a.prompt, response, a.streaming, ioOk)
         IN /\ store' = l.store
            /\ calls' = [calls EXCEPT ![1] =
                 [pc |-> "done", op |-> "LogInteraction", prompt |-> a.prompt,
                  response |-> response, err |-> Nil, streaming |-> a.streaming,
                  line |-> Fprintln(Marshal(InteractionEntry(a.prompt, response,
                                                             a.streaming))),
                  off |-> 0, ret |-> l.ret]]
    /\ UNCHANGED <<env, booted, stderr, llmService, logFile, llmType, fdOpen,
                   fdLock, now, closeRets, osCloseCalls, req, cw,
                   bk>>

\* one whole LogError call, run alone on the service
DirectLogError ==
    /\ Cardinality(Newlines(store)) < MaxLines
    /\ \E a \in DirectArgs, ioOk \in BOOLEAN :
         LET err == a.err
             l == LogError(a.prompt, err, a.streaming, ioOk)
         IN /\ store' = l.store
            /\ calls' = [calls EXCEPT ![1] =
                 [pc |-> "done", op |-> "LogError", prompt |-> a.prompt,
                  response |-> <<>>, err |-> err, streaming |-> a.streaming,
                  line |-> Fprintln(Marshal(ErrorEntry(a.prompt, err, a.streaming))),
                  off |-> 0, ret |-> l.ret]]
    /\ UNCHANGED <<env, booted, stderr, llmService, logFile, llmType, fdOpen,
                   fdLock, now, closeRets, osCloseCalls, req, cw,
                   bk>>

\* NewLoggingService: the file is opened in append mode, or the open fails
NewLoggingService(type, openOk) ==
    IF openOk THEN [logFile |-> "set", llmType |-> type, err |-> Nil]
    ELSE [logFile |-> "nil", llmType |-> "",
          err |-> Err(<<"failed to open log file: ", "permission denied">>)]

\* os.OpenFile(path, O_APPEND|O_CREATE|O_WRONLY, 0644): what the file holds
\* once opened
\* (Trunc: the file opened with O_TRUNC)
OpenFileTrunc(content) == <<>>
OpenFile(content) == content

\* a new LoggingService on the same path after the previous one was closed
Reopen ==
    /\ logFile = "nil"
    /\ \E type \in {"stub", "ollama"}, openOk \in BOOLEAN :
         LET logger == NewLoggingService(type, openOk)
         IN IF ~logger.err.nil
            THEN UNCHANGED <<logFile, llmType, fdOpen, closeRets, osCloseCalls,
                             store>>
            ELSE /\ logFile' = logger.logFile
                 /\ llmType' = logger.llmType
                 /\ fdOpen' = TRUE
                 /\ store' = OpenFile(store)
                 /\ closeRets' = <<>>
                 /\ osCloseCalls' = 0
    /\ UNCHANGED <<env, booted, stderr, llmService, fdLock, now, calls,
                   req, cw, bk>>

\* time passes
Tick ==
    /\ now < MaxClock
    /\ now' = now + 1
    /\ UNCHANGED <<env, booted, stderr, llmService, logFile, llmType, fdOpen,
                   fdLock, store, closeRets, osCloseCalls, calls, req, cw,
                   bk>>


--------------------------------------------------------------------------
(* Backends: src/unnamed/part_001 (Stub, NewLLM), src/src/service/logger.go
   (Ollama), and the generator service of src/src/service/logger_test.go *)

StubBackend == [kind |-> "stub", baseURL |-> "", model |-> ""]

NewOllamaLLM(baseURL, model) ==
    [kind |-> "ollama",
     baseURL |-> IF baseURL = "" THEN "http://localhost:11434" ELSE baseURL,
     model |-> IF model = "" THEN "llama2" ELSE model]

\* a nil LLM
NoBackend == [kind |-> "nil", baseURL |-> "", model |-> ""]

\* (LateCheck: an Ollama backend built from whatever the config holds)
NewLLMLateCheck(config) ==
    IF config.Type = "ollama"
    THEN [llm |-> NewOllamaLLM(config.URL, config.Model), err |-> Nil]
    ELSE IF config.Type = "stub"
    THEN [llm |-> StubBackend, err |-> Nil]
    ELSE [llm |-> NoBackend,
          err |-> Err(<<"unsupported LLM type: ">> \o Lit(config.Type))]

\* NewLLM: [llm, err]; llm is nil when the config is rejected
NewLLM(config) ==
    IF config.Type = "ollama"
    THEN IF config.URL = ""
         THEN [llm |-> NoBackend, err |-> Err(<<"OLLAMA_HOST is not set">>)]
         ELSE IF config.Model = ""
         THEN [llm |-> NoBackend, err |-> Err(<<"OLLAMA_MODEL is not set">>)]
         ELSE [llm |-> NewOllamaLLM(config.URL, config.Model), err |-> Nil]
    ELSE IF config.Type = "stub"
    THEN [llm |-> StubBackend, err |-> Nil]
    ELSE [llm |-> NoBackend,
          err |-> Err(<<"unsupported LLM type: ">> \o Lit(config.Type))]

\* (NoFallback: the service built on whatever NewLLM returned)
NewGeneratorServiceNoFallback(type) ==
    NewLLM([Type |-> type, URL |-> env.OLLAMA_HOST,
            Model |-> env.OLLAMA_MODEL]).llm

\* NewGeneratorService: the backend, with the fallback to the stub
NewGeneratorService(type) ==
    LET r == NewLLM([Type |-> type, URL |-> env.OLLAMA_HOST,
                     Model |-> env.OLLAMA_MODEL])
    IN IF ~r.err.nil THEN NewLLM([Type |-> "stub", URL |-> "", Model |-> ""]).llm
       ELSE r.llm

\* (Counting: a template that also tells how much has been logged so far)
StubGenerateCounting(prompt) ==
    <<"This", " ", "is", " ", "stubbed", " ", "response", " ">>
    \o Itoa(Len(store)) \o <<" ", "to", " ", "your", " ", "prompt:", " ">>
    \o prompt

\* StubLLM.Generate
StubGenerate(prompt) ==
    <<"This", " ", "is", " ", "a", " ", "stubbed", " ", "response", " ", "to",
      " ", "your", " ", "prompt:", " ">> \o prompt

\* StubLLM.GenerateStream: the words it writes, in order
StubWords(prompt) ==
    <<  <<"This">>, <<"is">>, <<"a">>, <<"stubbed">>, <<"streaming">>,
        <<"response">>, <<"to">>, <<"your">>, <<"prompt:">>, prompt >>

\* what the model server may answer to POST /api/generate
OllamaReplies == {"neterr", "status500", "undecodable", "ok"}
OllamaTexts == {<<"\"", "x">>}

\* (Retrying: the request sent again when the first attempt got no answer)
OllamaGenerateRetrying(reply, text) ==
    CASE reply = "neterr" ->
           [text |-> <<>>, sends |-> 2,
            err |-> Err(<<"failed to send request: ", "connection refused">>)]
      [] reply = "status500" ->
           [text |-> <<>>, sends |-> 1,
            err |-> Err(<<"unexpected status code: ">> \o Itoa(500))]
      [] reply = "undecodable" ->
           [text |-> <<>>, sends |-> 1,
            err |-> Err(<<"failed to decode response: ", "invalid character">>)]
      [] OTHER -> [text |-> text, sends |-> 1, err |-> Nil]

\* OllamaLLM.Generate, given the server's answer: [text, err], and the number
\* of HTTP requests it sent
OllamaGenerate(reply, text) ==
    CASE reply = "neterr" ->
           [text |-> <<>>, sends |-> 1,
            err |-> Err(<<"failed to send request: ", "connection refused">>)]
      [] reply = "status500" ->
           [text |-> <<>>, sends |-> 1,
            err |-> Err(<<"unexpected status code: ">> \o Itoa(500))]
      [] reply = "undecodable" ->
           [text |-> <<>>, sends |-> 1,
            err |-> Err(<<"failed to decode response: ", "invalid character">>)]
      [] OTHER -> [text |-> text, sends |-> 1, err |-> Nil]

--------------------------------------------------------------------------
(* Streaming transport adapter: ChunkedWriter *)

\* (Raw: the fragment framed without JSON escaping)
TokenLineRaw(data) == <<"{", "\"token\":", "\"">> \o data \o <<"\"", "}", "\n">>

\* json.Marshal(TokenResponse{Token: data}) followed by "\n"
TokenLine(data) == <<"{", "\"token\":">> \o JSONString(data) \o <<"}", "\n">>

\* The sink is the http.ResponseWriter: a write on a broken connection fails;
\* a write on a live one is buffered, and Flush, which returns nothing, either
\* delivers the buffer to the client or finds the connection broken.
SinkWrite(sink, bytes, flushOk) ==
    IF sink.conn # "ok"
    THEN [sink |-> sink, err |-> Err(<<"write: broken pipe">>)]
    ELSE [sink |-> IF flushOk
                   THEN [sink EXCEPT !.received = @ \o bytes]
                   ELSE [sink EXCEPT !.conn = "broken"],
          err |-> Nil]

\* (ObserveAfter: onWrite called once the sink has taken the line)
ChunkedWriteObserveAfter(p, sink, flushOk) ==
    LET w == SinkWrite(sink, TokenLine(p), flushOk)
    IN [observed |-> IF w.err.nil THEN p ELSE <<>>,
        sink |-> w.sink,
        n |-> IF w.err.nil THEN ByteLen(p) ELSE 0,
        err |-> w.err]

\* ChunkedWriter.Write(p): onWrite first, then the framed line to the sink,
\* then Flush: the text handed to onWrite, the sink afterwards, (n, err)
ChunkedWrite(p, sink, flushOk) ==
    LET w == SinkWrite(sink, TokenLine(p), flushOk)
    IN [observed |-> p,
        sink |-> w.sink,
        n |-> IF w.err.nil THEN ByteLen(p) ELSE 0,
        err |-> w.err]

--------------------------------------------------------------------------
(* HTTP handlers: src/src/types/types.go *)

\* request bodies: not JSON, JSON without "prompt", JSON with a prompt
Bodies == {[json |-> FALSE, hasPrompt |-> FALSE, prompt |-> <<>>],
           [json |-> TRUE, hasPrompt |-> FALSE, prompt |-> <<>>],
           [json |-> TRUE, hasPrompt |-> TRUE, prompt |-> <<>>],
           [json |-> TRUE, hasPrompt |-> TRUE, prompt |-> <<" ">>],
           [json |-> TRUE, hasPrompt |-> TRUE, prompt |-> <<"p">>]}

\* c.BindJSON(&req) with `binding:"required"` on Prompt: [prompt, err]
BindJSON(b) ==
    IF ~b.json
    THEN [prompt |-> <<>>, err |-> Err(<<"invalid character">>)]
    ELSE LET p == IF b.hasPrompt THEN b.prompt ELSE <<>>
         IN IF p = <<>>
            THEN [prompt |-> <<>>,
                  err |-> Err(<<"Field validation for 'Prompt' failed on the 'required' tag">>)]
            ELSE [prompt |-> p, err |-> Nil]

IdleReq == [pc |-> "idle", endpoint |-> "", reqBody |-> <<>>, prompt |-> <<>>,
            written |-> FALSE, status |-> 0, body |-> <<>>, conn |-> "ok",
            responseBuilder |-> <<>>, words |-> <<>>, objs |-> 0,
            fragsOut |-> 0, frags |-> <<>>, sends |-> 0,
            genCalls |-> 0, genErr |-> Nil, genText |-> <<>>,
            logCalls |-> <<>>, start |-> 0,
            reply |-> [kind |-> "", text |-> <<>>]]

\* gin.H{"error": msg} and types.Response{Response: text} as JSON
ErrorBody(msg) == <<"{", "\"error\":">> \o JSONString(msg) \o <<"}">>
ResponseBody(text) == <<"{", "\"response\":">> \o JSONString(text) \o <<"}">>

\* c.JSON(code, obj): the status is set unless the header is already written;
\* the body is written to the connection
JSON(f, code, bytes) ==
    [f EXCEPT !.written = TRUE,
              !.status = IF f.written THEN f.status ELSE code,
              !.body = IF f.conn = "ok" THEN f.body \o bytes ELSE f.body]

\* the handler returns: gin writes the header (default status 200) if the
\* handler has not
Return(f) ==
    [f EXCEPT !.pc = "done",
              !.written = TRUE,
              !.status = IF f.written THEN f.status ELSE 200]

\* the frame after a logger call (the call, the clock at the call and its
\* return value recorded)
Logged(f, op, prompt, response, err, streaming, ret) ==
    [f EXCEPT !.logCalls = Append(@, [op |-> op, prompt |-> prompt,
                                      response |-> response, err |-> err,
                                      streaming |-> streaming, ret |-> ret,
                                      at |-> now])]

\* "if err := c.BindJSON(&req); err != nil": types.go 68-72 and 112-116
\* [frame, store]
OnBindError(f, err, streaming, ioOk) ==
    LET l == LogError(f.prompt, err, streaming, ioOk)
    IN [frame |-> Return(JSON(Logged(f, "LogError", f.prompt, <<>>, err,
                                     streaming, l.ret),
                              400, ErrorBody(<<"Invalid request format">>))),
        store |-> l.store]

\* "if req.Prompt == """: types.go 74-79 and 118-123
OnEmptyPrompt(f, streaming, ioOk) ==
    LET err == Err(<<"prompt cannot be empty">>)
        l == LogError(f.prompt, err, streaming, ioOk)
    IN [frame |-> Return(JSON(Logged(f, "LogError", f.prompt, <<>>, err,
                                     streaming, l.ret),
                              400, ErrorBody(err.msg))),
        store |-> l.store]

\* (NoLog: the branch without its LogError call)
OnBackendErrorNoLog(f, err, streaming, ioOk) ==
    [frame |-> Return(JSON(f, 500, ErrorBody(<<"Failed to generate response">>))),
     store |-> store]

\* (Leak: the branch answering with the backend's error text)
OnBackendErrorLeak(f, err, streaming, ioOk) ==
    LET l == LogError(f.prompt, err, streaming, ioOk)
    IN [frame |-> Return(JSON(Logged(f, "LogError", f.prompt, <<>>, err,
                                     streaming, l.ret),
                              500, ErrorBody(err.msg))),
        store |-> l.store]

\* (Partial: the branch logging what the callback has accumulated)
OnBackendErrorPartial(f, err, streaming, ioOk) ==
    LET l == LogInteraction(f.prompt, f.responseBuilder, streaming, ioOk)
    IN [frame |-> Return(JSON(Logged(f, "LogError", f.prompt, <<>>, err,
                                     streaming, l.ret),
                              500, ErrorBody(<<"Failed to generate response">>))),
        store |-> l.store]

\* the backend returned an error: types.go 83-87 and 135-139
OnBackendError(f, err, streaming, ioOk) ==
    LET l == LogError(f.prompt, err, streaming, ioOk)
    IN [frame |-> Return(JSON(Logged(f, "LogError", f.prompt, <<>>, err,
                                     streaming, l.ret),
                              500, ErrorBody(<<"Failed to generate response">>))),
        store |-> l.store]

\* (FailOnLogError: a logging failure turned into a failed request)
OnGeneratedFailOnLogError(f, responseText, ioOk) ==
    LET l == LogInteraction(f.prompt, responseText, FALSE, ioOk)
        g == Logged(f, "LogInteraction", f.prompt, responseText, Nil, FALSE, l.ret)
    IN [frame |-> IF ~l.ret.nil
                  THEN Return(JSON(g, 500, ErrorBody(<<"Failed to log interaction">>)))
                  ELSE Return(JSON(g, 200, ResponseBody(responseText))),
        store |-> l.store]

\* (LogsPrompt: the interaction logged with the prompt in place of the text)
OnGeneratedLogsPrompt(f, responseText, ioOk) ==
    LET l == LogInteraction(f.prompt, f.prompt, FALSE, ioOk)
        g == Logged(f, "LogInteraction", f.prompt, f.prompt, Nil, FALSE, l.ret)
    IN [frame |-> Return(JSON(g, 200, ResponseBody(responseText))),
        store |-> l.store]

\* Generate succeeded: types.go 89-97
OnGenerated(f, responseText, ioOk) ==
    LET l == LogInteraction(f.prompt, responseText, FALSE, ioOk)
        g == Logged(f, "LogInteraction", f.prompt, responseText, Nil, FALSE, l.ret)
    IN [frame |-> IF ~l.ret.nil
                  THEN Return(JSON(g, 200, ResponseBody(responseText)))
                  ELSE Return(JSON(g, 200, ResponseBody(responseText))),
        store |-> l.store]

\* (Unflagged: the streamed interaction logged as a plain one)
OnStreamedUnflagged(f, ioOk) ==
    LET l == LogInteraction(f.prompt, f.responseBuilder, FALSE, ioOk)
    IN [frame |-> Return(Logged(f, "LogInteraction", f.prompt,
                                f.responseBuilder, Nil, FALSE, l.ret)),
        store |-> l.store]

\* GenerateStream succeeded: types.go 141-147
OnStreamed(f, ioOk) ==
    LET l == LogInteraction(f.prompt, f.responseBuilder, TRUE, ioOk)
    IN [frame |-> Return(Logged(f, "LogInteraction", f.prompt,
                                f.responseBuilder, Nil, TRUE, l.ret)),
        store |-> l.store]

\* (Stateful: a backend that answers only while nothing has been logged)
GenerateStateful(prompt, reply, text) ==
    IF store # <<>>
    THEN [text |-> <<>>, sends |-> 0, err |-> Err(<<"busy">>)]
    ELSE IF llmService.kind = "stub"
    THEN [text |-> StubGenerate(prompt), sends |-> 0, err |-> Nil]
    ELSE OllamaGenerate(reply, text)

\* GeneratorService.Generate on the backend in use, given the server's answer
Generate(prompt, reply, text) ==
    IF llmService.kind = "stub"
    THEN [text |-> StubGenerate(prompt), sends |-> 0, err |-> Nil]
    ELSE OllamaGenerate(reply, text)

\* HandleGenerate, whole
HandleGenerateResult(f0, b, reply, text, ioOk) ==
    LET bind == BindJSON(b)
        f == [f0 EXCEPT !.endpoint = "generate", !.reqBody = b,
                        !.prompt = bind.prompt, !.start = now]
    IN IF ~bind.err.nil THEN OnBindError(f, bind.err, FALSE, ioOk)
       ELSE IF f.prompt = <<>> THEN OnEmptyPrompt(f, FALSE, ioOk)
       ELSE LET g == Generate(f.prompt, reply, text)
                h == [f EXCEPT !.genCalls = @ + 1, !.genErr = g.err,
                               !.genText = g.text, !.sends = g.sends,
                               !.reply = IF llmService.kind = "stub" THEN @
                                         ELSE [kind |-> reply, text |-> text]]
            IN IF ~g.err.nil THEN OnBackendError(h, g.err, FALSE, ioOk)
               ELSE OnGenerated(h, g.text, ioOk)

HandleGenerate(r) ==
    /\ booted = "serving"
    /\ req[r].pc = "idle"
    /\ \E b \in Bodies, reply \in OllamaReplies, text \in OllamaTexts,
          ioOk \in BOOLEAN :
         LET res == HandleGenerateResult(req[r], b, reply, text, ioOk)
         IN /\ req' = [req EXCEPT ![r] = res.frame]
            /\ store' = res.store
    /\ UNCHANGED <<env, booted, stderr, llmService, logFile, llmType, fdOpen,
                   fdLock, now, closeRets, osCloseCalls, calls, cw,
                   bk>>


\* a Write of the backend on the ChunkedWriter of the request: gin writes the
\* header (status 200 unless set) before the bytes go to the connection
\* [frame, err]
WriterWrite(f, p, flushOk) ==
    LET w == ChunkedWrite(p, [conn |-> f.conn, received |-> f.body], flushOk)
    IN [frame |-> [f EXCEPT !.frags = Append(@, p),
                            !.responseBuilder = @ \o w.observed,
                            !.written = TRUE,
                            !.status = IF f.written THEN f.status ELSE 200,
                            !.conn = w.sink.conn,
                            !.body = w.sink.received,
                            !.fragsOut = IF w.err.nil THEN @ + 1 ELSE @],
        err |-> w.err]

\* OllamaLLM.GenerateStream up to the status check, given the server's answer
StreamReplies == {"neterr", "status500", "ok"}

\* (NoStatusCheck: the answer read whatever its status)
OllamaStreamOpenNoStatusCheck(reply) ==
    IF reply = "neterr"
    THEN Err(<<"failed to send request: ", "connection refused">>)
    ELSE Nil

OllamaStreamOpen(reply) ==
    CASE reply = "neterr" ->
           Err(<<"failed to send request: ", "connection refused">>)
      [] reply = "status500" ->
           Err(<<"unexpected status code: ">> \o Itoa(500))
      [] OTHER -> Nil

\* HandleGenerateStream up to the first fragment: binding, validation, the
\* ChunkedWriter, and the call of GenerateStream (the stub has its words, the
\* Ollama backend has sent its request and checked the status)
HandleGenerateStreamBegin(r) ==
    /\ booted = "serving"
    /\ req[r].pc = "idle"
    /\ \E b \in Bodies, reply \in StreamReplies, ioOk \in BOOLEAN :
         LET bind == BindJSON(b)
             f == [req[r] EXCEPT !.endpoint = "stream", !.reqBody = b,
                                 !.prompt = bind.prompt, !.start = now]
             h == [f EXCEPT !.genCalls = @ + 1,
                            !.sends = IF llmService.kind = "stub" THEN 0 ELSE 1,
                            !.reply = IF llmService.kind = "stub" THEN @
                                      ELSE [kind |-> reply, text |-> <<>>]]
             open == IF llmService.kind = "stub" THEN Nil
                     ELSE OllamaStreamOpen(reply)
             res == IF ~bind.err.nil THEN OnBindError(f, bind.err, TRUE, ioOk)
                    ELSE IF f.prompt = <<>> THEN OnEmptyPrompt(f, TRUE, ioOk)
                    ELSE IF ~open.nil
                    THEN OnBackendError([h EXCEPT !.genErr = open], open, TRUE, ioOk)
                    ELSE [frame |-> [h EXCEPT !.pc = "streaming",
                                              !.words = IF llmService.kind = "stub"
                                                        THEN StubWords(f.prompt)
                                                        ELSE <<>>],
                          store |-> store]
         IN /\ req' = [req EXCEPT ![r] = res.frame]
            /\ store' = res.store
    /\ UNCHANGED <<env, booted, stderr, llmService, logFile, llmType, fdOpen,
                   fdLock, now, closeRets, osCloseCalls, calls, cw,
                   bk>>

\* one turn of the loop of StubLLM.GenerateStream: Fprintf(writer, "%s\n", word);
\* after the last word GenerateStream returns and the handler finishes
StubStreamWord(r) ==
    /\ req[r].pc = "streaming"
    /\ llmService.kind = "stub"
    /\ req[r].words # <<>>
    /\ \E flushOk \in BOOLEAN, ioOk \in BOOLEAN :
         LET w == WriterWrite(req[r], Head(req[r].words) \o <<"\n">>, flushOk)
             f == [w.frame EXCEPT !.words = Tail(@)]
             res == IF ~w.err.nil
                    THEN OnBackendError([f EXCEPT !.genErr = w.err], w.err, TRUE, ioOk)
                    ELSE IF f.words = <<>> THEN OnStreamed(f, ioOk)
                    ELSE [frame |-> f, store |-> store]
         IN /\ req' = [req EXCEPT ![r] = res.frame]
            /\ store' = res.store
    /\ UNCHANGED <<env, booted, stderr, llmService, logFile, llmType, fdOpen,
                   fdLock, now, closeRets, osCloseCalls, calls, cw,
                   bk>>

\* what decoder.Decode finds next in the server's stream
StreamItems == {[kind |-> "eof", response |-> <<>>, done |-> FALSE],
                [kind |-> "garbage", response |-> <<>>, done |-> FALSE],
                [kind |-> "object", response |-> <<"x">>, done |-> FALSE],
                [kind |-> "object", response |-> <<"x">>, done |-> TRUE]}

\* one turn of the loop of OllamaLLM.GenerateStream: Decode, Fprintf(writer,
\* "%s", result.Response), the test of Done; when the loop ends GenerateStream
\* returns and the handler finishes
OllamaStreamObject(r) ==
    /\ req[r].pc = "streaming"
    /\ llmService.kind = "ollama"
    /\ \E item \in StreamItems, flushOk \in BOOLEAN, ioOk \in BOOLEAN :
         /\ item.kind = "object" => req[r].objs < MaxObjs
         /\ LET w == WriterWrite(req[r], item.response, flushOk)
                f == [w.frame EXCEPT !.objs = @ + 1]
                decodeErr == Err(<<"failed to decode stream: ", "invalid character">>)
                writeErr == Errorf("failed to write response: ", w.err)
                res == CASE item.kind = "eof" -> OnStreamed(req[r], ioOk)
                         [] item.kind = "garbage" ->
                              OnBackendError([req[r] EXCEPT !.genErr = decodeErr],
                                             decodeErr, TRUE, ioOk)
                         [] OTHER ->
                              IF ~w.err.nil
                              THEN OnBackendError([f EXCEPT !.genErr = writeErr],
                                                  writeErr, TRUE, ioOk)
                              ELSE IF item.done THEN OnStreamed(f, ioOk)
                              ELSE [frame |-> f, store |-> store]
            IN /\ req' = [req EXCEPT ![r] = res.frame]
               /\ store' = res.store
    /\ UNCHANGED <<env, booted, stderr, llmService, logFile, llmType, fdOpen,
                   fdLock, now, closeRets, osCloseCalls, calls, cw,
                   bk>>

--------------------------------------------------------------------------
(* main: src/unnamed/part_000 *)

\* main up to router.Run: the logger, the generator service, the handler
Main ==
    /\ booted = "init"
    /\ \E openOk \in BOOLEAN :
         LET type == IF env.LLM_TYPE = "" THEN "ollama" ELSE env.LLM_TYPE
             logger == NewLoggingService(type, openOk)
         IN IF ~logger.err.nil
            THEN /\ stderr' = Append(stderr, <<"Failed to initialize logging service: ">>
                                             \o logger.err.msg)
                 /\ booted' = "exited"
                 /\ UNCHANGED <<logFile, fdOpen, llmType, llmService, store>>
            ELSE /\ logFile' = logger.logFile
                 /\ fdOpen' = TRUE
                 /\ store' = OpenFile(store)
                 /\ llmType' = logger.llmType
                 /\ llmService' = NewGeneratorService(type)
                 /\ booted' = "serving"
                 /\ UNCHANGED stderr
    /\ UNCHANGED <<env, fdLock, now, closeRets, osCloseCalls, calls,
                   req, cw, bk>>

--------------------------------------------------------------------------
(* A ChunkedWriter driven directly, fragment by fragment *)

Frags == {<<>>, <<"a">>, <<"b", "c">>, <<"\"", "\n">>, <<"\\", "n">>}

IdleWriter == [sink |-> [conn |-> "ok", received |-> <<>>], captured |-> <<>>,
               input |-> <<>>, rets |-> <<>>]

WriterCall ==
    /\ Len(cw.input) < MaxFrags
    /\ \E p \in Frags, flushOk \in BOOLEAN :
         LET w == ChunkedWrite(p, cw.sink, flushOk)
         IN cw' = [sink |-> w.sink,
                   captured |-> cw.captured \o w.observed,
                   input |-> Append(cw.input, p),
                   rets |-> Append(cw.rets, [n |-> w.n, err |-> w.err])]
    /\ UNCHANGED <<env, booted, stderr, llmService, logFile, llmType, fdOpen,
                   fdLock, store, now, closeRets, osCloseCalls, calls, req,
                   bk>>

--------------------------------------------------------------------------
(* The backends driven directly, as by the tests of package llm: a model
   server that answers as it was set up, and a plain io.Writer as the sink *)

\* the objects {response, done} a model server may send in its stream
StreamObjects == {[response |-> <<"x">>, done |-> FALSE],
                  [response |-> <<>>, done |-> FALSE],
                  [response |-> <<"y", "\n">>, done |-> TRUE]}

\* a model server: how it answers POST /api/generate (no answer, status 500,
\* status 200), the objects of its body and how the body ends
Servers ==
    {[reply |-> r, objs |-> <<>>, end |-> "eof"] : r \in {"neterr", "status500"}}
    \cup {[reply |-> "ok", objs |-> o, end |-> e] :
            o \in UNION {[1..k -> StreamObjects] : k \in 0..MaxObjs},
            e \in {"eof", "garbage"}}

\* the sink: the writes it has taken, and the write it fails (0: none)
Sinks == {[writes |-> <<>>, failAt |-> k] : k \in 0..2}

\* writer.Write(p) on the sink: [sink, err]
PlainWrite(sink, p) ==
    IF sink.failAt = Len(sink.writes) + 1
    THEN [sink |-> sink, err |-> Err(<<"short write">>)]
    ELSE [sink |-> [sink EXCEPT !.writes = Append(@, p)], err |-> Nil]

BackendPrompts == {<<"p">>, <<"a", " ", "b">>}

IdleBackend ==
    [server |-> [reply |-> "neterr", objs |-> <<>>, end |-> "eof"],
     gen |-> [called |-> FALSE, prompt |-> <<>>, text |-> <<>>, err |-> Nil],
     pc |-> "idle", prompt |-> <<>>, sink |-> [writes |-> <<>>, failAt |-> 0],
     next |-> 1, words |-> <<>>, ret |-> Nil,
     cancelledAt |-> -1,
     tok |-> [called |-> FALSE, text |-> <<>>, n |-> 0],
     made |-> [called |-> FALSE,
               config |-> [Type |-> "", URL |-> "", Model |-> ""],
               llm |-> NoBackend, err |-> Nil],
     asked |-> "none"]

\* what OllamaLLM.Generate finds in the server's answer: the first object of
\* a 200 body, if it decodes
ServerReply(server) ==
    IF server.reply = "ok" /\ server.objs = <<>> THEN "undecodable"
    ELSE server.reply

ServerText(server) ==
    IF server.objs = <<>> THEN <<>> ELSE server.objs[1].response

\* llm.Generate(ctx, prompt), whole
DirectGenerate ==
    /\ \E prompt \in BackendPrompts :
         LET g == Generate(prompt, ServerReply(bk.server), ServerText(bk.server))
         IN bk' = [bk EXCEPT !.gen = [called |-> TRUE, prompt |-> prompt,
                                      text |-> g.text, err |-> g.err]]
    /\ UNCHANGED <<env, booted, stderr, llmService, logFile, llmType, fdOpen,
                   fdLock, store, now, closeRets, osCloseCalls, calls, req, cw>>

\* llm.GenerateStream(ctx, prompt, &buf) up to its loop
DirectStreamBegin ==
    /\ bk.pc = "idle"
    /\ \E prompt \in BackendPrompts, sink \in Sinks :
         LET open == IF llmService.kind = "stub" THEN Nil
                     ELSE OllamaStreamOpen(bk.server.reply)
         IN bk' = [bk EXCEPT !.prompt = prompt,
                             !.sink = sink,
                             !.pc = IF open.nil THEN "streaming" ELSE "done",
                             !.ret = open,
                             !.words = IF llmService.kind = "stub"
                                       THEN StubWords(prompt) ELSE <<>>]
    /\ UNCHANGED <<env, booted, stderr, llmService, logFile, llmType, fdOpen,
                   fdLock, store, now, closeRets, osCloseCalls, calls, req, cw>>

\* one turn of the loop of StubLLM.GenerateStream on the plain sink
DirectStubWord ==
    /\ bk.pc = "streaming"
    /\ llmService.kind = "stub"
    /\ bk.words # <<>>
    /\ LET w == PlainWrite(bk.sink, Head(bk.words) \o <<"\n">>)
       IN bk' = [bk EXCEPT !.sink = w.sink,
                           !.words = IF w.err.nil THEN Tail(@) ELSE @,
                           !.pc = IF ~w.err.nil \/ Tail(bk.words) = <<>>
                                  THEN "done" ELSE "streaming",
                           !.ret = w.err]
    /\ UNCHANGED <<env, booted, stderr, llmService, logFile, llmType, fdOpen,
                   fdLock, store, now, closeRets, osCloseCalls, calls, req, cw>>

\* the caller cancels the context it gave to StubLLM.GenerateStream while the
\* loop runs (cancelledAt: the number of words written by then)
CancelStubStream ==
    /\ bk.pc = "streaming"
    /\ llmService.kind = "stub"
    /\ bk.cancelledAt = -1
    /\ bk' = [bk EXCEPT !.cancelledAt = Len(bk.sink.writes)]
    /\ UNCHANGED <<env, booted, stderr, llmService, logFile, llmType, fdOpen,
                   fdLock, store, now, closeRets, osCloseCalls, calls, req, cw>>

\* "if err := decoder.Decode(&result); err != nil": io.EOF ends the loop,
\* any other error is returned
\* (Lenient: every decoding error taken for the end of the stream)
DecodeErrorLenient(end) == Nil
DecodeError(end) ==
    IF end = "eof" THEN Nil
    ELSE Err(<<"failed to decode stream: ", "invalid character">>)

\* "if result.Done { break }"
\* (Never: a loop that ignores the done mark)
StopsAfterNever(obj) == FALSE
StopsAfter(obj) == obj.done

\* one turn of the loop of OllamaLLM.GenerateStream on the plain sink: Decode,
\* Fprintf(writer, "%s", result.Response), the test of Done
DirectOllamaObject ==
    /\ bk.pc = "streaming"
    /\ llmService.kind = "ollama"
    /\ IF bk.next > Len(bk.server.objs)
       THEN bk' = [bk EXCEPT !.pc = "done", !.ret = DecodeError(bk.server.end)]
       ELSE LET obj == bk.server.objs[bk.next]
                w == PlainWrite(bk.sink, obj.response)
            IN bk' = [bk EXCEPT
                        !.next = @ + 1,
                        !.sink = w.sink,
                        !.pc = IF ~w.err.nil \/ StopsAfter(obj)
                               THEN "done" ELSE "streaming",
                        !.ret = IF w.err.nil THEN Nil
                                ELSE Errorf("failed to write response: ", w.err)]
    /\ UNCHANGED <<env, booted, stderr, llmService, logFile, llmType, fdOpen,
                   fdLock, store, now, closeRets, osCloseCalls, calls, req, cw>>

\* the texts handed to countTokens: a letter, the three separators of the
\* code, and a carriage return
TextChars == {"a", " ", "\n", "\t", "\r"}
Texts == UNION {[1..k -> TextChars] : k \in 0..MaxText}

\* countTokens(text), its result kept
DirectCountTokens ==
    /\ \E text \in Texts :
         bk' = [bk EXCEPT !.tok = [called |-> TRUE, text |-> text,
                                   n |-> countTokens(text)]]
    /\ UNCHANGED <<env, booted, stderr, llmService, logFile, llmType, fdOpen,
                   fdLock, store, now, closeRets, osCloseCalls, calls, req, cw>>

\* the configs handed to NewLLM and the types handed to NewGeneratorService
Types == {"", "ollama", "stub", "invalid"}
Configs == [Type : Types, URL : {"", "http://ollama:11434"},
            Model : {"", "smollm"}]

\* llm.NewLLM(config), its results kept
DirectNewLLM ==
    /\ \E config \in Configs :
         LET r == NewLLM(config)
         IN bk' = [bk EXCEPT !.made = [called |-> TRUE, config |-> config,
                                       llm |-> r.llm, err |-> r.err]]
    /\ UNCHANGED <<env, booted, stderr, llmService, logFile, llmType, fdOpen,
                   fdLock, store, now, closeRets, osCloseCalls, calls, req, cw>>

\* service.NewGeneratorService(llmType) under the process environment
DirectNewGeneratorService ==
    /\ \E type \in Types :
         /\ llmService' = NewGeneratorService(type)
         /\ bk' = [bk EXCEPT !.asked = type]
    /\ UNCHANGED <<env, booted, stderr, logFile, llmType, fdOpen,
                   fdLock, store, now, closeRets, osCloseCalls, calls, req, cw>>

--------------------------------------------------------------------------
(* Specifications *)

Envs == [LLM_TYPE : {"", "ollama", "stub", "invalid"},
         OLLAMA_HOST : {"", "http://ollama:11434"},
         OLLAMA_MODEL : {"", "smollm"}]

\* the process before main runs
Init ==
    /\ env \in Envs
    /\ booted = "init"
    /\ stderr = <<>>
    /\ llmService = NoBackend
    /\ logFile = "nil"
    /\ llmType = ""
    /\ fdOpen = FALSE
    /\ fdLock = 0
    /\ store = <<>>
    /\ now = 0
    /\ closeRets = <<>>
    /\ osCloseCalls = 0
    /\ calls = [c \in Callers |-> IdleCall]
    /\ req = [r \in Reqs |-> IdleReq]
    /\ cw = IdleWriter
    /\ bk = IdleBackend

Next ==
    \/ Main
    \/ \E r \in Solo : HandleGenerate(r)
    \/ \E r \in Solo : HandleGenerateStreamBegin(r)
    \/ \E r \in Solo : StubStreamWord(r)
    \/ \E r \in Solo : OllamaStreamObject(r)

\* one request on a process started under any environment
Spec == Init /\ [][Next]_vars

\* environments of the two-request specification: the stub as fallback of a
\* misconfigured Ollama, and a configured Ollama
PairEnvs == {[LLM_TYPE |-> "", OLLAMA_HOST |-> "", OLLAMA_MODEL |-> "smollm"],
             [LLM_TYPE |-> "ollama", OLLAMA_HOST |-> "http://ollama:11434",
              OLLAMA_MODEL |-> "smollm"]}

InitPair ==
    /\ env \in PairEnvs
    /\ booted = "init"
    /\ stderr = <<>>
    /\ llmService = NoBackend
    /\ logFile = "nil"
    /\ llmType = ""
    /\ fdOpen = FALSE
    /\ fdLock = 0
    /\ store = <<>>
    /\ now = 0
    /\ closeRets = <<>>
    /\ osCloseCalls = 0
    /\ calls = [c \in Callers |-> IdleCall]
    /\ req = [r \in Reqs |-> IdleReq]
    /\ cw = IdleWriter
    /\ bk = IdleBackend

NextPair ==
    \/ Main
    \/ \E r \in Reqs : HandleGenerate(r)
    \/ \E r \in Reqs : HandleGenerateStreamBegin(r)
    \/ \E r \in Reqs : StubStreamWord(r)
    \/ \E r \in Reqs : OllamaStreamObject(r)

\* two concurrent requests
SpecPair == InitPair /\ [][NextPair]_vars

\* a LoggingService right after NewLoggingService, called directly
InitLog ==
    /\ env = [LLM_TYPE |-> "stub", OLLAMA_HOST |-> "", OLLAMA_MODEL |-> ""]
    /\ booted = "init"
    /\ stderr = <<>>
    /\ llmService = NoBackend
    /\ logFile = "set"
    /\ llmType = "stub"
    /\ fdOpen = TRUE
    /\ fdLock = 0
    /\ store = <<>>
    /\ now = 0
    /\ closeRets = <<>>
    /\ osCloseCalls = 0
    /\ calls = [c \in Callers |-> IdleCall]
    /\ req = [r \in Reqs |-> IdleReq]
    /\ cw = IdleWriter
    /\ bk = IdleBackend

NextLog ==
    \/ \E c \in Callers : LogInteractionBegin(c)
    \/ \E c \in Callers : LogErrorBegin(c)
    \/ \E c \in Callers : FileWriteLock(c)
    \/ \E c \in Callers : FileWriteSyscall(c)
    \/ Tick

\* concurrent logger calls on one open service
SpecLog == InitLog /\ [][NextLog]_vars

NextLife ==
    \/ DirectLogInteraction
    \/ DirectLogError
    \/ Close
    \/ Reopen

\* the life of a service: sequential calls, Close, and a new service on the
\* same file
SpecLife == InitLog /\ [][NextLife]_vars

\* a ChunkedWriter on a fresh response
InitWriter ==
    /\ env = [LLM_TYPE |-> "stub", OLLAMA_HOST |-> "", OLLAMA_MODEL |-> ""]
    /\ booted = "init"
    /\ stderr = <<>>
    /\ llmService = NoBackend
    /\ logFile = "nil"
    /\ llmType = ""
    /\ fdOpen = FALSE
    /\ fdLock = 0
    /\ store = <<>>
    /\ now = 0
    /\ closeRets = <<>>
    /\ osCloseCalls = 0
    /\ calls = [c \in Callers |-> IdleCall]
    /\ req = [r \in Reqs |-> IdleReq]
    /\ cw = IdleWriter
    /\ bk = IdleBackend

NextWriter == WriterCall

SpecWriter == InitWriter /\ [][NextWriter]_vars

\* a backend built by NewLLM from a valid config, facing a model server
InitBackend ==
    /\ env = [LLM_TYPE |-> "stub", OLLAMA_HOST |-> "", OLLAMA_MODEL |-> ""]
    /\ booted = "init"
    /\ stderr = <<>>
    /\ \/ /\ llmService = NewLLM([Type |-> "stub", URL |-> "", Model |-> ""]).llm
          /\ bk = IdleBackend
       \/ /\ llmService = NewLLM([Type |-> "ollama", URL |-> "http://ollama:11434",
                                  Model |-> "smollm"]).llm
          /\ \E s \in Servers : bk = [IdleBackend EXCEPT !.server = s]
    /\ logFile = "nil"
    /\ llmType = ""
    /\ fdOpen = FALSE
    /\ fdLock = 0
    /\ store = <<>>
    /\ now = 0
    /\ closeRets = <<>>
    /\ osCloseCalls = 0
    /\ calls = [c \in Callers |-> IdleCall]
    /\ req = [r \in Reqs |-> IdleReq]
    /\ cw = IdleWriter

NextBackend ==
    \/ DirectGenerate
    \/ DirectStreamBegin
    \/ DirectStubWord
    \/ DirectOllamaObject
    \/ CancelStubStream

\* the backends called directly
SpecBackend == InitBackend /\ [][NextBackend]_vars

NextFactory ==
    \/ DirectNewLLM
    \/ DirectNewGeneratorService

\* the constructors called directly under any environment
SpecFactory == Init /\ [][NextFactory]_vars


\* a LoggingService right after NewLoggingService, of either kind
InitRecord ==
    /\ env = [LLM_TYPE |-> "stub", OLLAMA_HOST |-> "", OLLAMA_MODEL |-> ""]
    /\ booted = "init"
    /\ stderr = <<>>
    /\ llmService = NoBackend
    /\ \E openOk \in BOOLEAN, type \in {"stub", "ollama"} :
         LET logger == NewLoggingService(type, openOk)
         IN /\ logger.err.nil
            /\ logFile = logger.logFile
            /\ llmType = logger.llmType
    /\ fdOpen = TRUE
    /\ fdLock = 0
    /\ store = <<>>
    /\ now = 0
    /\ closeRets = <<>>
    /\ osCloseCalls = 0
    /\ calls = [c \in Callers |-> IdleCall]
    /\ req = [r \in Reqs |-> IdleReq]
    /\ cw = IdleWriter
    /\ bk = IdleBackend

NextRecord ==
    \/ DirectLogInteraction
    \/ DirectLogError

\* sequential calls on an open service
SpecRecord == InitRecord /\ [][NextRecord]_vars

NextTimed ==
    \/ Main
    \/ \E r \in Solo : HandleGenerate(r)
    \/ \E r \in Solo : HandleGenerateStreamBegin(r)
    \/ \E r \in Solo : StubStreamWord(r)
    \/ \E r \in Solo : OllamaStreamObject(r)
    \/ Tick

\* one request while the clock advances
SpecTimed == Init /\ [][NextTimed]_vars

NextTokens == DirectCountTokens

\* countTokens applied to texts
SpecTokens == InitWriter /\ [][NextTokens]_vars

--------------------------------------------------------------------------
(* Properties *)

Done(r) == req[r].pc = "done"

\* a request of the streaming endpoint
Streaming(r) == req[r].endpoint = "stream"

\* C1: concurrent logger calls that all succeed leave one complete line per
\* finished call in the store, each the record of a different call, and what
\* follows the last complete line is the part already written of the one call
\* that holds the handle: records are never interleaved, lost or duplicated.
C1_LinesNotInterleaved ==
    (\A c \in Callers : calls[c].ret.nil) =>
        LET ls == Lines(store)
            done == {c \in Callers : calls[c].pc = "done"}
        IN /\ Len(ls) = Cardinality(done)
           /\ \E f \in [1..Len(ls) -> done] :
                 /\ \A i, j \in 1..Len(ls) : i # j => f[i] # f[j]
                 /\ \A i \in 1..Len(ls) : Fprintln(ls[i]) = calls[f[i]].line
           /\ \/ Trailing(store) = <<>> /\ \A c \in Callers :
                     calls[c].pc = "writing" => calls[c].off = 0
              \/ \E c \in Callers :
                     /\ calls[c].pc = "writing"
                     /\ Trailing(store) = SubSeq(calls[c].line, 1, calls[c].off)
                     /\ \A d \in Callers \ {c} : calls[d].pc # "writing"

\* all the concurrent calls have returned without error, the last caller's
\* record being the first line of the store
C1_Witness ==
    /\ \A c \in Callers : calls[c].pc = "done" /\ calls[c].ret.nil
    /\ Len(Lines(store)) = NumCallers
    /\ Fprintln(Lines(store)[1]) = calls[NumCallers].line
    /\ calls[1].op # calls[NumCallers].op

\* the process was configured with the Ollama kind but lacks the endpoint or
\* the model, so that NewGeneratorService fell back to the stub
FellBackToStub ==
    /\ booted = "serving"
    /\ env.LLM_TYPE \in {"", "ollama"}
    /\ (env.OLLAMA_HOST = "" \/ env.OLLAMA_MODEL = "")
    /\ llmService.kind = "stub"

\* C2: after the fallback of a misconfigured Ollama to the stub, the record of
\* every successful request carries the backend kind "stub".
C2_FallbackRecordKind ==
    FellBackToStub =>
        \A r \in Reqs :
            (/\ Done(r)
             /\ req[r].logCalls # <<>>
             /\ req[r].logCalls[1].op = "LogInteraction"
             /\ req[r].logCalls[1].ret.nil)
            => \A k \in 1..Len(Lines(store)) :
                  GetString(Lines(store)[k], "\"llm_type\":") = [ok |-> TRUE, text |-> <<"stub">>]

\* C3: once a fragment has been written to the response, the failure of
\* GenerateStream leaves the status at 200 and writes nothing more to the body.
C3_FailureOnlyStopsOutput ==
    [][\A r \in Reqs :
          (/\ req[r].pc = "streaming"
           /\ req[r].fragsOut >= 1
           /\ req'[r].pc = "done"
           /\ ~req'[r].genErr.nil)
          => (req'[r].status = 200 /\ req'[r].body = req[r].body)]_vars

\* strings.TrimSpace(p) = ""
BlankPrompt(b) ==
    LET p == IF b.hasPrompt THEN b.prompt ELSE <<>>
    IN \A i \in DOMAIN p : IsSpace(p[i])

\* C4: a request whose prompt is missing, empty or blank is answered with 400
\* and never reaches the generator.
C4_BlankPromptRejected ==
    \A r \in Reqs :
        (Done(r) /\ req[r].reqBody.json /\ BlankPrompt(req[r].reqBody))
        => (req[r].status = 400 /\ req[r].genCalls = 0)

\* C5: every finished request has made exactly one logger call, LogInteraction
\* if and only if the backend was called and returned no error, LogError
\* otherwise; an unfinished request has made none.
C5_OneLogCallPerRequest ==
    \A r \in Reqs :
        /\ ~Done(r) => req[r].logCalls = <<>>
        /\ Done(r) =>
             /\ Len(req[r].logCalls) = 1
             /\ req[r].logCalls[1].op \in {"LogInteraction", "LogError"}
             /\ req[r].logCalls[1].op = "LogInteraction"
                  <=> (req[r].genCalls = 1 /\ req[r].genErr.nil)

\* a streaming request that failed after fragments were written and a
\* request refused at binding have both been logged
C5_Witness ==
    \E r \in Reqs :
        /\ Done(r) /\ Streaming(r)
        /\ req[r].fragsOut >= 1
        /\ ~req[r].genErr.nil
        /\ req[r].logCalls[1].op = "LogError"

\* the token of a line of the streamed body: [ok, text]
DecodeToken(line) ==
    IF /\ Len(line) >= 5
       /\ line[1] = "{" /\ line[2] = "\"token\":" /\ line[3] = "\""
       /\ StringEnd(line, 3) = Len(line) - 1
       /\ line[Len(line)] = "}"
    THEN [ok |-> TRUE, text |-> Unescape(SubSeq(line, 4, Len(line) - 2))]
    ELSE [ok |-> FALSE, text |-> <<>>]

\* C6: when the sink accepts every write, the fragments f1..fn written through
\* a ChunkedWriter give n newline-terminated lines in the same order, line i
\* decoding to {token: fi}; each Write returns (len(fi), nil); the observed
\* text is f1 ++ ... ++ fn.
C6_FragmentsFramedInOrder ==
    cw.sink.conn = "ok" =>
        LET ls == Lines(cw.sink.received)
        IN /\ Len(ls) = Len(cw.input)
           /\ Trailing(cw.sink.received) = <<>>
           /\ \A i \in 1..Len(cw.input) :
                 /\ DecodeToken(ls[i]) = [ok |-> TRUE, text |-> cw.input[i]]
                 /\ cw.rets[i] = [n |-> ByteLen(cw.input[i]), err |-> Nil]
           /\ cw.captured = Concat(cw.input)

\* three fragments, among them a quote and a newline, and an empty one, went
\* through a writer whose sink took them all
C6_Witness ==
    /\ cw.sink.conn = "ok"
    /\ Len(cw.input) = 3
    /\ cw.input[1] = <<"\"", "\n">>
    /\ cw.input[2] = <<>>
    /\ cw.input[3] = <<"b", "c">>

\* C7: once a Close has returned no error, every further Close returns no
\* error and changes nothing: the handle is not closed again.
C7_CloseIdempotent ==
    [][(/\ Len(closeRets') = Len(closeRets) + 1
        /\ \E i \in 1..Len(closeRets) : closeRets[i].nil)
       => (/\ closeRets'[Len(closeRets')].nil
           /\ UNCHANGED <<logFile, fdOpen, osCloseCalls, store, llmType>>)]_vars

\* a Close that succeeded was followed by two more Close calls
C7_Witness ==
    /\ Len(closeRets) = 3
    /\ closeRets[1].nil
    /\ osCloseCalls = 1

\* C8: the answer does not depend on the logger: two finished requests with
\* the same endpoint, body, backend outcome and connection have the same
\* status and body, whatever their logger calls returned.
C8_LoggerNeverChangesOutcome ==
    \A r1, r2 \in Reqs :
        (/\ Done(r1) /\ Done(r2)
         /\ req[r1].endpoint = req[r2].endpoint
         /\ req[r1].reqBody = req[r2].reqBody
         /\ req[r1].genCalls = req[r2].genCalls
         /\ req[r1].genErr = req[r2].genErr
         /\ req[r1].genText = req[r2].genText
         /\ req[r1].responseBuilder = req[r2].responseBuilder
         /\ req[r1].conn = req[r2].conn)
        => (req[r1].status = req[r2].status /\ req[r1].body = req[r2].body)

\* two requests with the same prompt and the same generated text, one logged
\* and one whose LogInteraction failed, both answered 200 with the text
C8_Witness ==
    /\ Done("r1") /\ Done("r2")
    /\ req["r1"].endpoint = "generate" /\ req["r2"].endpoint = "generate"
    /\ req["r1"].reqBody = req["r2"].reqBody
    /\ req["r1"].genCalls = 1 /\ req["r2"].genCalls = 1
    /\ req["r1"].genErr.nil /\ req["r2"].genErr.nil
    /\ req["r1"].genText = req["r2"].genText
    /\ req["r1"].logCalls[1].ret.nil
    /\ ~req["r2"].logCalls[1].ret.nil
    /\ req["r2"].status = 200
    /\ req["r2"].body = ResponseBody(req["r2"].genText)

\* C9: a failed logger call leaves a report in the operational output.
C9_LogFailureReported ==
    \A r \in Reqs :
        \A i \in 1..Len(req[r].logCalls) :
            ~req[r].logCalls[i].ret.nil => stderr # <<>>

\* C10: a backend call that fails before any fragment was written is answered
\* with 500 and the generic error body, and logged by one LogError call with
\* the request's prompt, the backend's error and the endpoint's streaming
\* flag; the record written carries the error's text.
C10_BackendFailureGeneric ==
    \A r \in Reqs :
        (Done(r) /\ req[r].genCalls = 1 /\ ~req[r].genErr.nil /\ req[r].fragsOut = 0)
        => /\ req[r].status = 500
           /\ req[r].body = ErrorBody(<<"Failed to generate response">>)
           /\ Len(req[r].logCalls) = 1
           /\ req[r].logCalls[1].op = "LogError"
           /\ req[r].logCalls[1].prompt = req[r].prompt
           /\ req[r].logCalls[1].err = req[r].genErr
           /\ req[r].logCalls[1].streaming = Streaming(r)
           /\ req[r].logCalls[1].ret.nil =>
                \E k \in 1..Len(Lines(store)) :
                    GetString(Lines(store)[k], "\"error\":")
                        = [ok |-> TRUE, text |-> req[r].genErr.msg]

\* a streaming request whose backend failed at the first object of the
\* server's stream, logged
C10_Witness ==
    \E r \in Reqs :
        /\ Done(r) /\ Streaming(r)
        /\ req[r].genCalls = 1
        /\ req[r].genErr = Err(<<"failed to decode stream: ", "invalid character">>)
        /\ req[r].fragsOut = 0
        /\ req[r].status = 500
        /\ req[r].logCalls[1].ret.nil

\* C11: a request on /generate whose backend call returned a text t without
\* error is answered 200 with a body that decodes to {response: t}, and has
\* made one logger call, LogInteraction with the request's prompt, t and
\* streaming false; the record written carries the prompt and t.
C11_GenerateSuccess ==
    \A r \in Reqs :
        (/\ Done(r) /\ req[r].endpoint = "generate"
         /\ req[r].genCalls = 1 /\ req[r].genErr.nil)
        => /\ req[r].prompt # <<>>
           /\ req[r].status = 200
           /\ req[r].body = ResponseBody(req[r].genText)
           /\ GetString(req[r].body, "\"response\":")
                = [ok |-> TRUE, text |-> req[r].genText]
           /\ Len(req[r].logCalls) = 1
           /\ req[r].logCalls[1].op = "LogInteraction"
           /\ req[r].logCalls[1].prompt = req[r].prompt
           /\ req[r].logCalls[1].response = req[r].genText
           /\ req[r].logCalls[1].streaming = FALSE
           /\ req[r].logCalls[1].ret.nil =>
                LET ls == Lines(store)
                IN /\ GetString(ls[Len(ls)], "\"prompt\":")
                        = [ok |-> TRUE, text |-> req[r].prompt]
                   /\ GetString(ls[Len(ls)], "\"response\":")
                        = [ok |-> TRUE, text |-> req[r].genText]

\* the Ollama backend returned the server's text, which holds a quote, and
\* the request was answered and logged
C11_Witness ==
    \E r \in Solo :
        /\ Done(r) /\ req[r].endpoint = "generate"
        /\ llmService.kind = "ollama"
        /\ req[r].genErr.nil
        /\ req[r].genText = <<"\"", "x">>
        /\ req[r].status = 200
        /\ req[r].logCalls[1].ret.nil

\* strings.Contains
Contains(t, sub) ==
    \E i \in 0..(Len(t) - Len(sub)) : SubSeq(t, i + 1, i + Len(sub)) = sub

\* C12: against a model server that answers status 500, Generate returns an
\* error whose message holds "500" and no text, and GenerateStream returns
\* the same error without a single write to the sink.
C12_StatusErrorBothCalls ==
    (llmService.kind = "ollama" /\ bk.server.reply = "status500") =>
        /\ bk.gen.called =>
             /\ ~bk.gen.err.nil
             /\ bk.gen.text = <<>>
             /\ Contains(bk.gen.err.msg, Itoa(500))
        /\ bk.pc # "streaming"
        /\ bk.pc = "done" =>
             /\ ~bk.ret.nil
             /\ Contains(bk.ret.msg, Itoa(500))
             /\ bk.sink.writes = <<>>
        /\ (bk.gen.called /\ bk.pc = "done") => bk.ret = bk.gen.err

\* both calls were made against the server that answers 500
C12_Witness ==
    /\ llmService.kind = "ollama"
    /\ bk.server.reply = "status500"
    /\ bk.gen.called
    /\ bk.pc = "done"
    /\ ~bk.ret.nil

\* C13: on a sink that takes every write, GenerateStream has made one write
\* per object decoded so far, each the object's response, in arrival order;
\* it never goes past the first object marked done, and returns nil with the
\* responses up to that object (or all of them at a clean end of stream) in
\* the sink.
C13_StreamForwardsInOrder ==
    (/\ llmService.kind = "ollama"
     /\ bk.pc \in {"streaming", "done"}
     /\ bk.server.reply = "ok"
     /\ bk.sink.failAt = 0)
    => LET objs == bk.server.objs
           dones == {i \in DOMAIN objs : objs[i].done}
           stop == IF dones = {} THEN Len(objs)
                   ELSE CHOOSE i \in dones : \A j \in dones : i <= j
           k == Len(bk.sink.writes)
       IN /\ k <= stop
          /\ bk.sink.writes = [i \in 1..k |-> objs[i].response]
          /\ (bk.pc = "streaming" /\ dones # {}) => k < stop
          /\ (bk.pc = "done" /\ (dones # {} \/ bk.server.end = "eof")) =>
               /\ bk.ret.nil
               /\ k = stop
               /\ Concat(bk.sink.writes)
                    = Concat([i \in 1..stop |-> objs[i].response])

\* the server sent an object marked done and one more: only the first was
\* forwarded
C13_Witness ==
    /\ llmService.kind = "ollama"
    /\ bk.pc = "done"
    /\ bk.server.reply = "ok"
    /\ Len(bk.server.objs) = 2
    /\ bk.server.objs[1].done
    /\ bk.sink.failAt = 0
    /\ bk.sink.writes = <<bk.server.objs[1].response>>
    /\ bk.ret.nil

\* C14: when the stream turns undecodable after k objects, none of them
\* marked done, GenerateStream returns the decoding error and the sink holds
\* the k responses, nothing else.
C14_DecodeErrorKeepsFragments ==
    (/\ llmService.kind = "ollama"
     /\ bk.pc = "done"
     /\ bk.server.reply = "ok"
     /\ bk.server.end = "garbage"
     /\ \A i \in DOMAIN bk.server.objs : ~bk.server.objs[i].done
     /\ bk.sink.failAt = 0)
    => /\ ~bk.ret.nil
       /\ bk.ret.msg[1] = "failed to decode stream: "
       /\ bk.sink.writes
            = [i \in DOMAIN bk.server.objs |-> bk.server.objs[i].response]

\* two objects were forwarded before the stream turned undecodable
C14_Witness ==
    /\ llmService.kind = "ollama"
    /\ bk.pc = "done"
    /\ bk.server.end = "garbage"
    /\ Len(bk.server.objs) = 2
    /\ Len(bk.sink.writes) = 2
    /\ bk.sink.failAt = 0
    /\ ~bk.ret.nil

\* C15: NewLLM returns an error and a nil backend for an "ollama" config with
\* an empty URL or an empty model and for a type that is neither "ollama" nor
\* "stub"; for any other config it returns no error and a backend of the
\* requested variant, the Ollama one holding the config's URL and model.
C15_NewLLMValidates ==
    bk.made.called =>
        LET c == bk.made.config
            rejected == \/ c.Type = "ollama" /\ (c.URL = "" \/ c.Model = "")
                        \/ c.Type \notin {"ollama", "stub"}
        IN /\ rejected => (~bk.made.err.nil /\ bk.made.llm = NoBackend)
           /\ ~rejected =>
                /\ bk.made.err.nil
                /\ bk.made.llm.kind = c.Type
                /\ c.Type = "ollama" =>
                     (bk.made.llm.baseURL = c.URL /\ bk.made.llm.model = c.Model)

\* an "ollama" config without a URL was rejected
C15_Witness ==
    /\ bk.made.called
    /\ bk.made.config.Type = "ollama"
    /\ bk.made.config.URL = ""
    /\ bk.made.config.Model # ""
    /\ ~bk.made.err.nil
    /\ bk.made.llm = NoBackend

\* C16: whatever the type asked for and the OLLAMA_HOST and OLLAMA_MODEL
\* settings, the service built by NewGeneratorService holds a backend: the
\* stub when NewLLM rejects the config, the variant asked for otherwise.
C16_ServiceAlwaysHasBackend ==
    bk.asked # "none" =>
        LET r == NewLLM([Type |-> bk.asked, URL |-> env.OLLAMA_HOST,
                         Model |-> env.OLLAMA_MODEL])
        IN /\ llmService # NoBackend
           /\ llmService.kind \in {"stub", "ollama"}
           /\ ~r.err.nil => llmService = StubBackend
           /\ r.err.nil => (llmService = r.llm /\ llmService.kind = bk.asked)

\* the Ollama kind was asked for without a model in the environment, and the
\* service holds the stub
C16_Witness ==
    /\ bk.asked = "ollama"
    /\ env.OLLAMA_HOST # ""
    /\ env.OLLAMA_MODEL = ""
    /\ llmService = StubBackend

\* C17: a LogError call on an open logger whose write goes through returns
\* nil, and the last line of the store then decodes to a record with success
\* false, the error's message, the prompt, the streaming flag, an empty
\* response, token_count 0, response_size 0 and the logger's backend kind;
\* the only error the call may return is that of the write itself.
C17_LogErrorRecord ==
    (calls[1].pc = "done" /\ calls[1].op = "LogError") =>
        LET c == calls[1]
            ls == Lines(store)
        IN /\ logFile = "set" /\ fdOpen
           /\ \/ c.ret.nil
              \/ c.ret.msg = <<"failed to write error log entry: ",
                               "no space left on device">>
           /\ c.ret.nil =>
                /\ Len(ls) >= 1
                /\ Trailing(store) = <<>>
                /\ Unmarshal(ls[Len(ls)])
                     = [Prompt |-> c.prompt,
                        LLMType |-> Lit(llmType),
                        Streaming |-> c.streaming,
                        Response |-> <<>>,
                        TokenCount |-> 0,
                        ResponseSize |-> 0,
                        Success |-> FALSE,
                        ErrorMessage |-> c.err.msg]

\* the failure of a streaming request whose prompt holds a quote and a
\* newline was recorded as the second line of the store
C17_Witness ==
    /\ calls[1].pc = "done"
    /\ calls[1].op = "LogError"
    /\ calls[1].ret.nil
    /\ calls[1].streaming
    /\ calls[1].prompt = <<"\"", "\n">>
    /\ Len(Lines(store)) = 2
    /\ Unmarshal(Lines(store)[2]).ErrorMessage = calls[1].err.msg

\* C18: a LogInteraction call on an open logger whose write goes through
\* returns nil, and the last line of the store then decodes to a record with
\* success true, the prompt, the response, the streaming flag, a token_count
\* equal to countTokens(response), a response_size equal to the byte length of
\* the response, no error text and the logger's backend kind; the only error
\* the call may return is that of the write itself.
C18_LogInteractionRecord ==
    (calls[1].pc = "done" /\ calls[1].op = "LogInteraction") =>
        LET c == calls[1]
            ls == Lines(store)
        IN /\ logFile = "set" /\ fdOpen
           /\ \/ c.ret.nil
              \/ c.ret.msg = <<"failed to write to log file: ",
                               "no space left on device">>
           /\ c.ret.nil =>
                /\ Len(ls) >= 1
                /\ Trailing(store) = <<>>
                /\ Unmarshal(ls[Len(ls)])
                     = [Prompt |-> c.prompt,
                        LLMType |-> Lit(llmType),
                        Streaming |-> c.streaming,
                        Response |-> c.response,
                        TokenCount |-> countTokens(c.response),
                        ResponseSize |-> ByteLen(c.response),
                        Success |-> TRUE,
                        ErrorMessage |-> <<>>]
                /\ countTokens(c.response) >= 0

\* a two-word response to a prompt that holds a quote and a newline was
\* recorded with token_count 2 and response_size 3
C18_Witness ==
    /\ calls[1].pc = "done"
    /\ calls[1].op = "LogInteraction"
    /\ calls[1].ret.nil
    /\ calls[1].prompt = <<"\"", "\n">>
    /\ calls[1].response = <<"a", " ", "b">>
    /\ Len(Lines(store)) >= 1
    /\ Unmarshal(Lines(store)[Len(Lines(store))]).TokenCount = 2
    /\ Unmarshal(Lines(store)[Len(Lines(store))]).ResponseSize = 3

\* C19: on the stub, every Generate call returns no error and a text that
\* holds the prompt, and two requests with the same prompt get the same text
\* whatever happened between them.
C19_StubGenerateDeterministic ==
    llmService.kind = "stub" =>
        /\ \A r \in Reqs :
              (req[r].endpoint = "generate" /\ req[r].genCalls = 1) =>
                  /\ req[r].genErr.nil
                  /\ Contains(req[r].genText, req[r].prompt)
        /\ \A r1, r2 \in Reqs :
              (/\ req[r1].endpoint = "generate" /\ req[r1].genCalls = 1
               /\ req[r2].endpoint = "generate" /\ req[r2].genCalls = 1
               /\ req[r1].prompt = req[r2].prompt)
              => req[r1].genText = req[r2].genText

\* two requests with the same prompt were answered by the stub, the first
\* one logged before the second ran
C19_Witness ==
    /\ llmService.kind = "stub"
    /\ req["r1"].endpoint = "generate" /\ req["r1"].genCalls = 1
    /\ req["r2"].endpoint = "generate" /\ req["r2"].genCalls = 1
    /\ req["r1"].prompt = <<"p">>
    /\ req["r2"].prompt = <<"p">>
    /\ req["r1"].genText = req["r2"].genText
    /\ Len(Lines(store)) = 2

\* C20: on a sink that takes every write, StubLLM.GenerateStream returns nil
\* after one write per whitespace-delimited word of the template sentence
\* with the prompt embedded, each write one word followed by a newline, the
\* words put together holding the prompt.
C20_StubStreamWordPerFragment ==
    (llmService.kind = "stub" /\ bk.pc = "done" /\ bk.sink.failAt = 0) =>
        LET sentence == <<"This", " ", "is", " ", "a", " ", "stubbed", " ",
                          "streaming", " ", "response", " ", "to", " ", "your",
                          " ", "prompt:", " ">> \o bk.prompt
            ws == bk.sink.writes
        IN /\ bk.ret.nil
           /\ \A i \in DOMAIN ws :
                 /\ ws[i][Len(ws[i])] = "\n"
                 /\ Contains(sentence, SubSeq(ws[i], 1, Len(ws[i]) - 1))
           /\ Contains(Concat([i \in DOMAIN ws |-> SubSeq(ws[i], 1, Len(ws[i]) - 1)]),
                       bk.prompt)
           /\ Len(ws) = countTokens(sentence)
           /\ \A i \in DOMAIN ws :
                 countTokens(SubSeq(ws[i], 1, Len(ws[i]) - 1)) = 1
                 /\ \A j \in 1..(Len(ws[i]) - 1) : ~IsSpace(ws[i][j])

\* C21: once the caller has cancelled the context, with k words written,
\* StubLLM.GenerateStream writes at most the word in progress and returns:
\* the sink never holds more than k + 1 words.
C21_StubStreamStopsOnCancel ==
    (llmService.kind = "stub" /\ bk.cancelledAt >= 0) =>
        Len(bk.sink.writes) <= bk.cancelledAt + 1

\* C22: the store only grows: in every step of the life of a service (calls,
\* Close, a new service opened on the same file) the content before the step
\* is a prefix of the content after it.
C22_StoreAppendOnly ==
    [][/\ Len(store') >= Len(store)
       /\ SubSeq(store', 1, Len(store)) = store]_vars

\* a second service, of the other kind, was opened on the file and appended
\* its record after the one of the first service
C22_Witness ==
    /\ logFile = "set"
    /\ llmType = "ollama"
    /\ Len(Lines(store)) = 2
    /\ GetString(Lines(store)[1], "\"llm_type\":").text = <<"stub">>
    /\ GetString(Lines(store)[2], "\"llm_type\":").text = <<"ollama">>

\* C23: when the write or the flush of a fragment of a streaming response
\* fails, that Write returns an error, GenerateStream returns it at once and
\* the request is logged as a failure: a streaming request whose connection
\* is broken has finished, with a backend error and a LogError call.
C23_SinkFailureAbortsStream ==
    \A r \in Reqs :
        (Streaming(r) /\ req[r].conn = "broken")
        => /\ Done(r)
           /\ ~req[r].genErr.nil
           /\ Len(req[r].logCalls) = 1
           /\ req[r].logCalls[1].op = "LogError"

\* C24: a streaming request whose GenerateStream returned nil has made one
\* logger call, when the stream was over: LogInteraction with the request's
\* prompt, streaming true and the fragments the backend wrote during this
\* request, put together in the order of the writes.
C24_StreamLoggedWhole ==
    \A r \in Reqs :
        /\ (Streaming(r) /\ ~Done(r)) => req[r].logCalls = <<>>
        /\ (Done(r) /\ Streaming(r) /\ req[r].genCalls = 1 /\ req[r].genErr.nil)
           => /\ Len(req[r].logCalls) = 1
              /\ req[r].logCalls[1].op = "LogInteraction"
              /\ req[r].logCalls[1].prompt = req[r].prompt
              /\ req[r].logCalls[1].streaming
              /\ req[r].logCalls[1].response = Concat(req[r].frags)
              /\ llmService.kind = "stub" =>
                   req[r].frags = [i \in 1..10 |-> StubWords(req[r].prompt)[i] \o <<"\n">>]
              /\ llmService.kind = "ollama" =>
                   /\ Len(req[r].frags) = req[r].objs
                   /\ \A i \in DOMAIN req[r].frags : req[r].frags[i] = <<"x">>

\* two streams on the Ollama backend ran side by side: one forwarded two
\* objects, the other one, and both were logged
C24_Witness ==
    /\ llmService.kind = "ollama"
    /\ Done("r1") /\ Streaming("r1") /\ req["r1"].genErr.nil
    /\ Done("r2") /\ Streaming("r2") /\ req["r2"].genErr.nil
    /\ Len(req["r1"].frags) = 2
    /\ Len(req["r2"].frags) = 1
    /\ Len(Lines(store)) = 2

\* C25: a request calls the backend at most once, and once exactly when its
\* body passed the binding and the prompt test; a backend call sends at most
\* one HTTP request to the model server, also when it fails.
C25_NothingRetried ==
    \A r \in Reqs :
        /\ req[r].genCalls <= 1
        /\ req[r].sends <= req[r].genCalls
        /\ req[r].pc = "idle" => req[r].genCalls = 0
        /\ req[r].pc # "idle" =>
             (req[r].genCalls = 1
                <=> (/\ req[r].reqBody.json
                     /\ req[r].reqBody.hasPrompt
                     /\ req[r].reqBody.prompt # <<>>))
        /\ (req[r].genCalls = 1 /\ llmService.kind = "ollama") => req[r].sends = 1

\* the model server did not answer: the request failed after one attempt
C25_Witness ==
    \E r \in Solo :
        /\ Done(r)
        /\ llmService.kind = "ollama"
        /\ req[r].endpoint = "generate"
        /\ req[r].genCalls = 1
        /\ req[r].sends = 1
        /\ req[r].genErr = Err(<<"failed to send request: ", "connection refused">>)
        /\ req[r].status = 500

\* C26: the records of the store carry pairwise distinct ids.
C26_RecordIdsDistinct ==
    LET ls == Lines(store)
    IN \A i, j \in 1..Len(ls) :
          i # j => GetString(ls[i], "\"id\":").text # GetString(ls[j], "\"id\":").text

\* C27: in every record of the store the error message is present exactly
\* when success is false.
C27_ErrorIffFailure ==
    LET ls == Lines(store)
    IN \A i \in 1..Len(ls) :
          (Unmarshal(ls[i]).ErrorMessage # <<>>) <=> ~Unmarshal(ls[i]).Success

\* C28, as the code has it: countTokens(text) is the number of maximal runs of
\* characters other than space, newline and tab; it is 0 for a text without
\* such a character, never negative, and unchanged by one more space, newline
\* or tab in front, at the end, or next to another one.
C28_CountTokensRuns ==
    bk.tok.called =>
        LET t == bk.tok.text
            n == bk.tok.n
            ws == {" ", "\n", "\t"}
            runs == {i \in DOMAIN t : t[i] \notin ws /\ (i = 1 \/ t[i - 1] \in ws)}
        IN /\ n = Cardinality(runs)
           /\ n >= 0
           /\ (\A i \in DOMAIN t : t[i] \in ws) => n = 0
           /\ \A w \in ws :
                 /\ countTokens(<<w>> \o t) = n
                 /\ countTokens(t \o <<w>>) = n
                 /\ \A i \in DOMAIN t :
                       t[i] \in ws =>
                          countTokens(SubSeq(t, 1, i) \o <<w>>
                                      \o SubSeq(t, i + 1, Len(t))) = n

\* a text of two runs parted by a newline
C28_Witness ==
    /\ bk.tok.called
    /\ bk.tok.text = <<"a", "\n", "a">>
    /\ bk.tok.n = 2

\* C28, as stated: countTokens(text) is the number of maximal runs of
\* non-whitespace characters, the carriage return being whitespace like the
\* space, the newline and the tab.
C28_CountTokensWhitespace ==
    bk.tok.called =>
        LET t == bk.tok.text
            ws == {" ", "\n", "\t", "\r"}
            runs == {i \in DOMAIN t : t[i] \notin ws /\ (i = 1 \/ t[i - 1] \in ws)}
        IN bk.tok.n = Cardinality(runs)

\* C29: the record of a request carries the request's processing time: its
\* duration_ms is at least the time between the handler's entry and the log
\* call, and its timestamp is the time of the handler's entry.
C29_DurationIsProcessingTime ==
    \A r \in Solo :
       (/\ req[r].pc = "done"
        /\ Len(req[r].logCalls) = 1
        /\ req[r].logCalls[1].ret.nil
        /\ Len(Lines(store)) = 1)
       => LET line == Lines(store)[1]
              d == req[r].logCalls[1].at - req[r].start
          IN /\ Atoi(GetRaw(line, "\"duration_ms\":").text) >= d
             /\ GetString(line, "\"timestamp\":").text = Itoa(req[r].start)

\* C30: no step of a request changes the backend of the running service (its
\* kind, endpoint and model), and what a call returns depends only on its
\* prompt and the server's answer: two Generate calls with the same prompt
\* and the same answer return the same text and error; two stub streams of
\* the same prompt hand the same fragments, one as far as the other got; two
\* Ollama streams of the same answer to their request open or fail alike.
C30_BackendCallsStateless ==
    [][/\ booted = "serving" => llmService' = llmService
       /\ \A r1, r2 \in Reqs :
             LET a == req'[r1]
                 b == req'[r2]
                 n == IF Len(a.frags) < Len(b.frags) THEN Len(a.frags)
                      ELSE Len(b.frags)
                 openErrs == {OllamaStreamOpen("neterr"),
                              OllamaStreamOpen("status500")}
             IN (/\ a.genCalls = 1 /\ b.genCalls = 1
                 /\ a.endpoint = b.endpoint
                 /\ a.prompt = b.prompt
                 /\ a.reply = b.reply)
                => /\ a.endpoint = "generate" =>
                         a.genText = b.genText /\ a.genErr = b.genErr
                   /\ (a.endpoint = "stream" /\ llmService'.kind = "stub") =>
                         SubSeq(a.frags, 1, n) = SubSeq(b.frags, 1, n)
                   /\ (a.endpoint = "stream" /\ llmService'.kind = "ollama") =>
                         /\ a.genErr \in openErrs <=> b.genErr \in openErrs
                         /\ a.genErr \in openErrs => a.genErr = b.genErr
      ]_vars

\* two Generate calls on the Ollama backend with the same prompt got the same
\* answer of the server, the first one logged before the second ran
C30_Witness ==
    /\ llmService.kind = "ollama"
    /\ req["r1"].endpoint = "generate" /\ req["r1"].genCalls = 1
    /\ req["r2"].endpoint = "generate" /\ req["r2"].genCalls = 1
    /\ req["r1"].prompt = req["r2"].prompt
    /\ req["r1"].reply = [kind |-> "ok", text |-> <<"\"", "x">>]
    /\ req["r2"].reply = req["r1"].reply
    /\ req["r1"].genText = <<"\"", "x">>
    /\ req["r2"].genText = req["r1"].genText
    /\ Len(Lines(store)) = 2

\* C31: a streaming request that failed after at least one fragment had gone
\* out made one LogError call; when that call succeeded the store holds one
\* record, with success=false, the error's text, an empty response, a token
\* count of 0 and a response size of 0, and the text the callback
\* accumulated appears nowhere in the store.
C31_PartialTextNotLogged ==
    \A r \in Solo :
       (/\ req[r].pc = "done"
        /\ req[r].endpoint = "stream"
        /\ ~req[r].genErr.nil
        /\ req[r].fragsOut >= 1)
       => /\ req[r].responseBuilder # <<>>
          /\ Len(req[r].logCalls) = 1
          /\ req[r].logCalls[1].op = "LogError"
          /\ ~Contains(store, <<Head(req[r].responseBuilder)>>)
          /\ req[r].logCalls[1].ret.nil =>
                /\ Len(Lines(store)) = 1
                /\ LET e == Unmarshal(Lines(store)[1])
                   IN /\ ~e.Success
                      /\ e.Streaming
                      /\ e.ErrorMessage = req[r].genErr.msg
                      /\ e.ErrorMessage # <<>>
                      /\ e.Response = <<>>
                      /\ e.TokenCount = 0
                      /\ e.ResponseSize = 0

\* an Ollama stream that broke off after a fragment had gone out, logged
C31_Witness ==
    /\ llmService.kind = "ollama"
    /\ req["r1"].pc = "done"
    /\ req["r1"].endpoint = "stream"
    /\ ~req["r1"].genErr.nil
    /\ req["r1"].fragsOut >= 1
    /\ req["r1"].responseBuilder # <<>>
    /\ req["r1"].body # <<>>
    /\ req["r1"].logCalls[1].ret.nil
    /\ Len(Lines(store)) = 1

\* C32: the callback sees the fragment of every Write call, the failed ones
\* included: the observed text is the fragments of all calls put together;
\* the text delivered to the sink is a prefix of it, and a strict one once a
\* Write of a non-empty fragment has failed.
C32_ObservedBeforeWrite ==
    LET ls == Lines(cw.sink.received)
        delivered == Concat([i \in 1..Len(ls) |-> DecodeToken(ls[i]).text])
    IN /\ cw.captured = Concat(cw.input)
       /\ Len(delivered) <= Len(cw.captured)
       /\ SubSeq(cw.captured, 1, Len(delivered)) = delivered
       /\ (\E i \in 1..Len(cw.input) :
              ~cw.rets[i].err.nil /\ cw.input[i] # <<>>)
          => Len(cw.captured) > Len(delivered)

\* a fragment was delivered, and the Write of a later one failed
C32_Witness ==
    /\ Len(cw.input) = 3
    /\ cw.rets[1].err.nil
    /\ cw.sink.received # <<>>
    /\ ~cw.rets[3].err.nil
    /\ cw.input[1] = <<"a">>
    /\ cw.input[3] = <<"b", "c">>
    /\ cw.captured = cw.input[1] \o cw.input[2] \o cw.input[3]

\* C33: on a service whose Close has succeeded, a LogInteraction or LogError
\* call returns an error, the one of a write through a nil file handle, and
\* leaves the store as it was.
C33_ClosedServiceRejectsCalls ==
    [][(/\ logFile = "nil"
        /\ logFile' = "nil"
        /\ closeRets' = closeRets)
       => (/\ store' = store
           /\ calls'[1].pc = "done"
           /\ calls'[1].op \in {"LogInteraction", "LogError"}
           /\ ~calls'[1].ret.nil
           /\ Contains(calls'[1].ret.msg, <<"invalid argument">>))]_vars

\* a line was written, the service was closed, and a LogError call on the
\* closed service has returned
C33_Witness ==
    /\ logFile = "nil"
    /\ \E i \in 1..Len(closeRets) : closeRets[i].nil
    /\ Len(Lines(store)) = 1
    /\ calls[1].pc = "done"
    /\ calls[1].op = "LogError"
    /\ ~calls[1].ret.nil
    /\ Contains(calls[1].ret.msg, <<"invalid argument">>)

====
